---- MODULE Spec2Model ----
(***************************************************************************)
(* Model of src/crypto/mod.rs of hat-backup: the byte-buffer types, the    *)
(* per-chunk scheme RefKey, the chained scheme FixedKey (tie_knot and      *)
(* untie_knot) and CipherText::random_pad_upto.                            *)
(*                                                                         *)
(* Bytes.  Every byte is a 4-tuple <<kind, id, idx, flips>>:               *)
(*   "lit"  a known value idx in 0..255 (plaintext, the length field,      *)
(*          the static nonce, caller supplied bytes);                      *)
(*   "rnd"  byte idx of the id-th nonce drawn from gen_nonce;              *)
(*   "pad"  byte idx of the key stream of the id-th random_pad_upto;       *)
(*   "xor"  such a key stream byte xored into a byte that is not zero;     *)
(*   "ct"   byte idx of the output of the id-th distinct secretbox seal.   *)
(* flips is the set of bit positions of the byte that storage corruption   *)
(* has inverted, so that inverting a bit twice restores the byte.          *)
(*                                                                         *)
(* The secretbox primitive (xsalsa20poly1305) is the ideal authenticated   *)
(* cipher: seal is a deterministic function of (plaintext, nonce, key)     *)
(* whose output is MACBYTES tag bytes followed by one byte per plaintext   *)
(* byte, and open accepts exactly the byte strings seal has produced under *)
(* the same nonce and key.  boxes is the table of the seals made so far.   *)
(***************************************************************************)
EXTENDS Integers, Sequences, FiniteSets, TLC

\* sodiumoxide::crypto::secretbox::xsalsa20poly1305 sizes.
MACBYTES == 16
NONCEBYTES == 24

\* Bounds of the exploration.
MaxSegs == 2
MaxPrefix == 2
MaxPads == 1
MaxChunks == 2
ExtraLen == 1

Lit(v) == <<"lit", 0, v, {}>>

\* desc::fixed_key_overhead and the footer sizes.
footer_plain_bytes == NONCEBYTES + 8

footer_cipher_bytes == footer_plain_bytes + MACBYTES

fixed_key_overhead == MACBYTES + footer_cipher_bytes

static_nonce == [i \in 1..NONCEBYTES |-> Lit(255)]

\* imp::gen_nonce: the n-th nonce drawn.
gen_nonce(n) == [i \in 1..NONCEBYTES |-> <<"rnd", n, i, {}>>]

\* imp::gen_key and wrap_key: the n-th key drawn, tagged with its algorithm.
gen_key(n) == <<"XSalsa20Poly1305", n>>

\* WriteBytesExt::write_u64::<LittleEndian>
RECURSIVE write_u64_le(_, _)
write_u64_le(n, k) ==
    IF k = 0 THEN <<>> ELSE <<Lit(n % 256)>> \o write_u64_le(n \div 256, k - 1)

\* ReadBytesExt::read_u64::<LittleEndian> on the first 8 bytes of s.
RECURSIVE read_u64_le(_, _)
read_u64_le(s, k) ==
    IF k = 0 THEN 0 ELSE s[1][3] + 256 * read_u64_le(Tail(s), k - 1)

\* The bytes of the id-th seal, of a plaintext of n bytes.
BoxBytes(id, n) == [i \in 1..(n + MACBYTES) |-> <<"ct", id, i, {}>>]

BoxId(bx, pt, nonce, key) ==
    LET e == [key |-> key, nonce |-> nonce, pt |-> pt]
        hit == {i \in 1..Len(bx) : bx[i] = e}
    IN IF hit = {} THEN Len(bx) + 1 ELSE CHOOSE i \in hit : TRUE

\* PlainText::to_ciphertext (imp::seal): the table after the seal and the
\* ciphertext.
to_ciphertext(bx, pt, nonce, key) ==
    LET id == BoxId(bx, pt, nonce, key)
    IN [boxes |-> IF id > Len(bx)
                  THEN Append(bx, [key |-> key, nonce |-> nonce, pt |-> pt])
                  ELSE bx,
        ct |-> BoxBytes(id, Len(pt))]

\* Mutant: the bytes decrypted without verifying the tag.
to_plaintext_noauth(bx, ct, nonce, key) ==
    IF Len(ct) < MACBYTES \/ ct[1][1] # "ct" \/ ct[1][2] > Len(bx)
    THEN [ok |-> FALSE, pt |-> <<>>]
    ELSE [ok |-> TRUE, pt |-> bx[ct[1][2]].pt]

\* CipherTextRef::to_plaintext (imp::open): Ok(plaintext) or Err(()).
to_plaintext(bx, ct, nonce, key) ==
    IF Len(ct) < MACBYTES \/ ct[1][1] # "ct"
    THEN [ok |-> FALSE, pt |-> <<>>]
    ELSE LET id == ct[1][2]
         IN IF /\ id \in 1..Len(bx)
               /\ bx[id].key = key
               /\ bx[id].nonce = nonce
               /\ ct = BoxBytes(id, Len(bx[id].pt))
            THEN [ok |-> TRUE, pt |-> bx[id].pt]
            ELSE [ok |-> FALSE, pt |-> <<>>]

\* Mutant: the bounds taken as offsets into the buffer, not into the view.
slice_abs(v, from, to) == [lo |-> from, hi |-> to]

\* CipherTextRef::slice on a view [lo, hi) of the buffer.
slice(v, from, to) == [lo |-> v.lo + from, hi |-> v.lo + to]

ViewLen(v) == v.hi - v.lo

ViewBytes(b, v) == SubSeq(b, v.lo + 1, v.hi)

\* Mutant: the left view keeps the first of the len bytes split off.
split_from_right_overlap(v, len) ==
    [ok |-> ViewLen(v) >= len,
     left |-> [lo |-> v.lo, hi |-> v.hi - len + 1],
     right |-> [lo |-> v.hi - len, hi |-> v.hi]]

\* Mutant: the length is not asserted.
split_from_right_unchecked(v, len) ==
    [ok |-> TRUE,
     left |-> [lo |-> v.lo, hi |-> v.hi - len],
     right |-> [lo |-> v.hi - len, hi |-> v.hi]]

\* CipherTextRef::split_from_right: the assertion and the two views.
split_from_right(v, len) ==
    [ok |-> ViewLen(v) >= len,
     left |-> slice(v, 0, ViewLen(v) - len),
     right |-> slice(v, ViewLen(v) - len, ViewLen(v))]

NoView == [lo |-> -1, hi |-> -1]

NoUntie ==
    [status |-> "none", rest |-> NoView, pt |-> <<>>,
     footTried |-> FALSE, footOK |-> FALSE, lenSplit |-> FALSE]

\* Mutant: the assertion admits a body ciphertext of exactly NONCEBYTES.
tie_knot_ge(bx, key, pt, n) ==
    LET nonce == gen_nonce(n)
        s1 == to_ciphertext(bx, pt, nonce, key)
        ct == s1.ct
        ct_len == Len(ct)
        foot_pt == nonce \o write_u64_le(ct_len, 8)
    IN IF Len(foot_pt) # footer_plain_bytes \/ ~(ct_len >= NONCEBYTES)
       THEN [status |-> "panic_assert", ct |-> <<>>, boxes |-> s1.boxes,
             used |-> <<[key |-> key, nonce |-> nonce]>>]
       ELSE LET fnonce == SubSeq(ct, ct_len - NONCEBYTES + 1, ct_len)
                s2 == to_ciphertext(s1.boxes, foot_pt, fnonce, key)
            IN [status |-> "ok", ct |-> ct \o s2.ct, boxes |-> s2.boxes,
                used |-> <<[key |-> key, nonce |-> nonce],
                           [key |-> key, nonce |-> fnonce]>>]

\* Mutant: the footer sealed under the nonce of the body.
tie_knot_samenonce(bx, key, pt, n) ==
    LET nonce == gen_nonce(n)
        s1 == to_ciphertext(bx, pt, nonce, key)
        ct == s1.ct
        ct_len == Len(ct)
        foot_pt == nonce \o write_u64_le(ct_len, 8)
    IN IF Len(foot_pt) # footer_plain_bytes \/ ~(ct_len > NONCEBYTES)
       THEN [status |-> "panic_assert", ct |-> <<>>, boxes |-> s1.boxes,
             used |-> <<[key |-> key, nonce |-> nonce]>>]
       ELSE LET s2 == to_ciphertext(s1.boxes, foot_pt, nonce, key)
            IN [status |-> "ok", ct |-> ct \o s2.ct, boxes |-> s2.boxes,
                used |-> <<[key |-> key, nonce |-> nonce],
                           [key |-> key, nonce |-> nonce]>>]

\* FixedKey::tie_knot with the n-th generated nonce.  used lists the
\* (key, nonce) pairs handed to the secretbox seal, in order.
tie_knot(bx, key, pt, n) ==
    LET nonce == gen_nonce(n)
        s1 == to_ciphertext(bx, pt, nonce, key)
        ct == s1.ct
        ct_len == Len(ct)
        foot_pt == nonce \o write_u64_le(ct_len, 8)
    IN IF Len(foot_pt) # footer_plain_bytes \/ ~(ct_len > NONCEBYTES)
       THEN [status |-> "panic_assert", ct |-> <<>>, boxes |-> s1.boxes,
             used |-> <<[key |-> key, nonce |-> nonce]>>]
       ELSE LET fnonce == SubSeq(ct, ct_len - NONCEBYTES + 1, ct_len)
                s2 == to_ciphertext(s1.boxes, foot_pt, fnonce, key)
            IN [status |-> "ok", ct |-> ct \o s2.ct, boxes |-> s2.boxes,
                used |-> <<[key |-> key, nonce |-> nonce],
                           [key |-> key, nonce |-> fnonce]>>]

\* FixedKey::untie_knot, first half: split the footer off the view v of
\* the buffer b and open it.  dbg tells whether the build checks arithmetic
\* overflow (rest.len() - NONCEBYTES).
untie_footer(bx, key, b, v, dbg) ==
    LET s == split_from_right(v, footer_cipher_bytes)
        rest == s.left
    IN IF ~s.ok
       THEN [status |-> "panic_underrun", tried |-> FALSE, rest |-> NoView,
             foot_pt |-> <<>>]
       ELSE IF ViewLen(rest) < NONCEBYTES
       THEN [status |-> IF dbg THEN "panic_overflow" ELSE "panic_index",
             tried |-> FALSE, rest |-> NoView, foot_pt |-> <<>>]
       ELSE
       LET nonce == ViewBytes(b, slice(rest, ViewLen(rest) - NONCEBYTES,
                                              ViewLen(rest)))
           f == to_plaintext(bx, ViewBytes(b, s.right), nonce, key)
       IN [status |-> IF f.ok THEN "ok" ELSE "auth_err", tried |-> TRUE,
           rest |-> rest, foot_pt |-> f.pt]

\* FixedKey::untie_knot, second half: parse the opened footer, split the
\* body off rest by the length it records and open it.
untie_body(bx, key, b, rest, foot_pt) ==
    IF Len(foot_pt) < NONCEBYTES
    THEN [NoUntie EXCEPT !.status = "panic_index",
                         !.footTried = TRUE, !.footOK = TRUE]
    ELSE IF Len(foot_pt) < NONCEBYTES + 8
    THEN [NoUntie EXCEPT !.status = "panic_unwrap",
                         !.footTried = TRUE, !.footOK = TRUE]
    ELSE
    LET nonce == SubSeq(foot_pt, 1, NONCEBYTES)
        ct_len == read_u64_le(SubSeq(foot_pt, NONCEBYTES + 1, NONCEBYTES + 8), 8)
        s == split_from_right(rest, ct_len)
    IN IF ~s.ok
       THEN [NoUntie EXCEPT !.status = "panic_underrun", !.footTried = TRUE,
                            !.footOK = TRUE, !.lenSplit = TRUE]
       ELSE
       LET body == to_plaintext(bx, ViewBytes(b, s.right), nonce, key)
       IN [status |-> IF body.ok THEN "ok" ELSE "auth_err",
           rest |-> IF body.ok THEN s.left ELSE NoView,
           pt |-> body.pt,
           footTried |-> TRUE, footOK |-> TRUE, lenSplit |-> TRUE]

\* Mutant: the body is split off by the length field of a footer that did
\* not open.
untie_knot_len_first(bx, key, b, v, dbg) ==
    LET f == untie_footer(bx, key, b, v, dbg)
    IN IF f.status = "auth_err"
       THEN [NoUntie EXCEPT !.status = "panic_underrun", !.footTried = TRUE,
                            !.lenSplit = TRUE]
       ELSE IF f.status # "ok"
       THEN [NoUntie EXCEPT !.status = f.status, !.footTried = f.tried]
       ELSE untie_body(bx, key, b, f.rest, f.foot_pt)

\* FixedKey::untie_knot: try!() returns the footer's Err before the length
\* is read.
untie_knot(bx, key, b, v, dbg) ==
    LET f == untie_footer(bx, key, b, v, dbg)
    IN IF f.status # "ok"
       THEN [NoUntie EXCEPT !.status = f.status, !.footTried = f.tried]
       ELSE untie_body(bx, key, b, f.rest, f.foot_pt)

\* CipherText::random_pad_upto with the n-th throwaway stream key: resize
\* with zeroes, then xor the key stream into the new tail.
stream_xor(byte, ks) == IF byte = Lit(0) THEN ks ELSE <<"xor", ks[2], ks[3], {}>>

\* Mutant: the buffer resized to final_size whatever its length.
random_pad_upto_resize(b, final_size, n) ==
    [i \in 1..final_size |->
        IF i <= Len(b) THEN b[i] ELSE <<"pad", n, i - Len(b), {}>>]

\* Mutant: the key stream starts one byte early.
random_pad_upto_early(b, final_size, n) ==
    LET size == Len(b)
    IN IF final_size > size
       THEN LET resized == b \o [i \in 1..(final_size - size) |-> Lit(0)]
            IN [i \in 1..final_size |->
                   IF i < size THEN resized[i]
                   ELSE stream_xor(resized[i], <<"pad", n, i - size + 1, {}>>)]
       ELSE b

random_pad_upto(b, final_size, n) ==
    LET size == Len(b)
    IN IF final_size > size
       THEN LET resized == b \o [i \in 1..(final_size - size) |-> Lit(0)]
            IN [i \in 1..final_size |->
                   IF i <= size THEN resized[i]
                   ELSE stream_xor(resized[i], <<"pad", n, i - size, {}>>)]
       ELSE b

\* One bit of byte pos (1-based) of b inverted.
FlipBit(b, pos, bit) ==
    [b EXCEPT ![pos] = <<@[1], @[2], @[3],
                         IF bit \in @[4] THEN @[4] \ {bit} ELSE @[4] \cup {bit}>>]

(***************************************************************************)
(* State.  A caller holds one FixedKey and one CipherText buffer buf that  *)
(* it fills with sealed segments and may pad, a view of it that it unties  *)
(* from the tail, and a second buffer blob of RefKey chunks with their     *)
(* chunk references.  orig and borig are buf and blob as written, before   *)
(* any corruption; segs, start, calls, out and last record what was asked  *)
(* and what was returned.                                                  *)
(***************************************************************************)
VARIABLES boxes, nonces, keys, pads, sealLog, debug_build, alive,
          buf, orig, segs, unpadded, view, start, calls, out,
          blob, borig, crefs, last

vars == <<boxes, nonces, keys, pads, sealLog, debug_build, alive,
          buf, orig, segs, unpadded, view, start, calls, out,
          blob, borig, crefs, last>>

fixedVars == <<buf, orig, segs, unpadded, view, start, calls, out, nonces, pads>>

refVars == <<blob, borig, crefs, keys>>

\* The key handed to FixedKey::new.
fkey == <<"XSalsa20Poly1305", 0>>

\* Plaintexts the caller seals: empty, at and just above the longest length
\* tie_knot refuses, and longer than a nonce.
ShortLen == NONCEBYTES - MACBYTES

Pt(n, b) == [i \in 1..n |-> Lit((b + i) % 256)]

Plaintexts ==
    {Pt(0, 0), Pt(ShortLen, 1), Pt(ShortLen + 1, 1), Pt(ShortLen + 1, 2),
     Pt(NONCEBYTES + ExtraLen, 3)}

\* Chunks sealed by the per-chunk scheme: empty and not.
RefPlaintexts == {Pt(0, 0), Pt(ShortLen, 1)}

\* Bytes a caller may hand to CipherText::new before any segment.
Prefix(n) == [i \in 1..n |-> Lit(170)]

NoLast ==
    [op |-> "new", status |-> "ok", arg |-> <<>>, n |-> 0, pre |-> NoView,
     before |-> <<>>, res |-> NoUntie]

Init ==
    /\ boxes = <<>>
    /\ nonces = 0
    /\ keys = 0
    /\ pads = 0
    /\ sealLog = <<>>
    /\ debug_build \in BOOLEAN
    /\ alive = TRUE
    /\ \E n \in {0, MaxPrefix} :
          buf = Prefix(n) /\ orig = Prefix(n) /\ unpadded = n
    /\ segs = <<>>
    /\ view = NoView
    /\ start = NoView
    /\ calls = 0
    /\ out = <<>>
    /\ blob = <<>>
    /\ borig = <<>>
    /\ crefs = <<>>
    /\ last = NoLast

\* FixedKey::seal(pt), the result appended to buf (CipherText::append).
FixedSeal(pt) ==
    /\ alive /\ Len(segs) < MaxSegs /\ pads = 0
    /\ LET r == tie_knot(boxes, fkey, pt, nonces + 1)
       IN /\ boxes' = r.boxes
          /\ nonces' = nonces + 1
          /\ sealLog' = sealLog \o r.used
          /\ alive' = (r.status = "ok")
          /\ buf' = buf \o r.ct
          /\ orig' = orig \o r.ct
          /\ segs' = IF r.status = "ok"
                     THEN Append(segs, [pt |-> pt, lo |-> Len(buf),
                                        hi |-> Len(buf) + Len(r.ct)])
                     ELSE segs
          /\ last' = [NoLast EXCEPT !.op = "seal", !.status = r.status,
                                    !.arg = pt, !.before = r.ct]
          /\ unpadded' = Len(buf) + Len(r.ct)
    /\ view' = NoView /\ start' = NoView /\ calls' = 0 /\ out' = <<>>
    /\ UNCHANGED <<pads, debug_build, refVars>>

\* Target sizes handed to random_pad_upto: below, at and above the length.
PadTargets == {t \in {Len(buf) - 1, Len(buf), Len(buf) + 1,
                      Len(buf) + footer_cipher_bytes} : t >= 0}

\* CipherText::random_pad_upto(t) on buf.
Pad(t) ==
    /\ alive /\ pads < MaxPads
    /\ buf' = random_pad_upto(buf, t, pads + 1)
    /\ orig' = random_pad_upto(orig, t, pads + 1)
    /\ pads' = pads + 1
    /\ last' = [NoLast EXCEPT !.op = "pad", !.n = t, !.before = buf]
    /\ view' = NoView /\ start' = NoView /\ calls' = 0 /\ out' = <<>>
    /\ UNCHANGED <<boxes, nonces, sealLog, debug_build, alive, segs, unpadded,
                   refVars>>

\* CipherText::as_ref: a view of the whole buffer.
AsRef ==
    /\ alive
    /\ view' = [lo |-> 0, hi |-> Len(buf)]
    /\ start' = view'
    /\ calls' = 0 /\ out' = <<>>
    /\ last' = [NoLast EXCEPT !.op = "as_ref"]
    /\ UNCHANGED <<boxes, nonces, pads, sealLog, debug_build, alive, buf, orig,
                   segs, unpadded, refVars>>

\* Ends of the sub-views a caller takes of the whole buffer.
SliceEnds ==
    {unpadded, Len(buf) - 1, footer_cipher_bytes - 1,
     footer_cipher_bytes + NONCEBYTES - 1}

\* CipherTextRef::slice(from, to) on the view of the whole buffer.
Slice(from, to) ==
    /\ alive /\ view = [lo |-> 0, hi |-> Len(buf)] /\ calls = 0
    /\ 0 <= from /\ from <= to /\ to <= ViewLen(view)
    /\ view' = slice(view, from, to)
    /\ start' = view'
    /\ out' = <<>>
    /\ last' = [NoLast EXCEPT !.op = "slice", !.pre = view]
    /\ UNCHANGED <<boxes, nonces, pads, sealLog, debug_build, alive, buf, orig,
                   segs, unpadded, calls, refVars>>

\* FixedKey::unseal on the current view.  The view is moved into the call:
\* the caller is left with the remainder on Ok, and with nothing on Err.
Unseal ==
    /\ alive /\ view # NoView
    /\ LET r == untie_knot(boxes, fkey, buf, view, debug_build)
       IN /\ view' = r.rest
          /\ out' = IF r.status = "ok" THEN Append(out, r.pt) ELSE out
          /\ alive' = (r.status \in {"ok", "auth_err"})
          /\ last' = [NoLast EXCEPT !.op = "unseal", !.status = r.status,
                                    !.arg = r.pt, !.pre = view, !.res = r]
    /\ calls' = calls + 1
    /\ UNCHANGED <<boxes, nonces, pads, sealLog, debug_build, buf, orig, segs,
                   unpadded, start, refVars>>

\* Storage inverts one bit of the last segment of an intact buffer.
Tamper(pos, bit) ==
    /\ alive /\ buf = orig /\ segs # <<>>
    /\ pos > segs[Len(segs)].lo /\ pos <= segs[Len(segs)].hi
    /\ buf' = FlipBit(buf, pos, bit)
    /\ last' = [NoLast EXCEPT !.op = "tamper", !.n = pos]
    /\ view' = NoView /\ start' = NoView /\ calls' = 0 /\ out' = <<>>
    /\ UNCHANGED <<boxes, nonces, pads, sealLog, debug_build, alive, orig, segs,
                   unpadded, refVars>>

NoKey == <<"None", 0>>

\* RefKey::seal with the n-th generated key: the key and the length it
\* writes to href.persistent_ref, and the ciphertext.
RefKey_seal(bx, pt, n) ==
    LET key == gen_key(n)
        s == to_ciphertext(bx, pt, static_nonce, key)
    IN [boxes |-> s.boxes, ct |-> s.ct, key |-> key, length |-> Len(s.ct),
        used |-> <<[key |-> key, nonce |-> static_nonce]>>]

\* Mutant: the chunk read from the start of the view.
RefKey_unseal_nooffset(bx, cref, b, v) ==
    IF ~(ViewLen(v) >= cref.offset + cref.length)
    THEN [status |-> "panic_underrun", pt |-> <<>>]
    ELSE IF cref.key[1] # "XSalsa20Poly1305"
    THEN [status |-> "panic_key", pt |-> <<>>]
    ELSE LET r == to_plaintext(bx, ViewBytes(b, slice(v, 0, cref.length)),
                               static_nonce, cref.key)
         IN [status |-> IF r.ok THEN "ok" ELSE "auth_err", pt |-> r.pt]

\* RefKey::unseal(hash, cref, ct) on the view v of the buffer b.
RefKey_unseal(bx, cref, b, v) ==
    IF ~(ViewLen(v) >= cref.offset + cref.length)
    THEN [status |-> "panic_underrun", pt |-> <<>>]
    ELSE IF cref.key[1] # "XSalsa20Poly1305"
    THEN [status |-> "panic_key", pt |-> <<>>]
    ELSE LET r == to_plaintext(bx,
                      ViewBytes(b, slice(v, cref.offset,
                                            cref.offset + cref.length)),
                      static_nonce, cref.key)
         IN [status |-> IF r.ok THEN "ok" ELSE "auth_err", pt |-> r.pt]

\* RefKey::seal(href, pt); the blob store appends the chunk to blob and
\* keeps its reference (offset, length, key).  plain is what was sealed.
RefSeal(pt) ==
    /\ alive /\ Len(crefs) < MaxChunks
    /\ LET r == RefKey_seal(boxes, pt, keys + 1)
       IN /\ boxes' = r.boxes
          /\ keys' = keys + 1
          /\ sealLog' = sealLog \o r.used
          /\ blob' = blob \o r.ct
          /\ borig' = borig \o r.ct
          /\ crefs' = Append(crefs, [offset |-> Len(blob), length |-> r.length,
                                     key |-> r.key, plain |-> pt])
          /\ last' = [NoLast EXCEPT !.op = "ref_seal", !.arg = pt,
                                    !.n = r.length, !.before = r.ct]
    /\ UNCHANGED <<debug_build, alive, fixedVars>>

\* The key put in the chunk reference handed to RefKey::unseal: the one
\* seal recorded, the one generated for another chunk, or none.
RefKeyChoice(i, sel) ==
    IF sel = "own" THEN crefs[i].key
    ELSE IF sel = "other" THEN crefs[(i % Len(crefs)) + 1].key
    ELSE NoKey

\* RefKey::unseal of chunk i on blob without its last cut bytes.
RefUnseal(i, sel, cut) ==
    /\ alive /\ i \in 1..Len(crefs) /\ cut <= Len(blob)
    /\ sel = "other" => Len(crefs) > 1
    /\ LET cref == [crefs[i] EXCEPT !.key = RefKeyChoice(i, sel)]
           v == [lo |-> 0, hi |-> Len(blob) - cut]
           r == RefKey_unseal(boxes, cref, blob, v)
       IN /\ alive' = (r.status \in {"ok", "auth_err"})
          /\ last' = [NoLast EXCEPT !.op = "ref_unseal", !.status = r.status,
                                    !.arg = r.pt, !.n = i, !.pre = v,
                                    !.before = <<sel>>]
    /\ UNCHANGED <<boxes, sealLog, debug_build, fixedVars, refVars>>

\* Storage inverts one bit of an intact blob.
RefTamper(pos, bit) ==
    /\ alive /\ blob = borig /\ pos \in 1..Len(blob)
    /\ blob' = FlipBit(blob, pos, bit)
    /\ last' = [NoLast EXCEPT !.op = "ref_tamper", !.n = pos]
    /\ UNCHANGED <<boxes, sealLog, debug_build, alive, fixedVars, borig, crefs,
                   keys>>

\* Bits of a byte that corruption inverts: the lowest and the highest.
FlipBits == {0, 7}

FixedNext ==
    \/ \E pt \in Plaintexts : FixedSeal(pt)
    \/ \E t \in PadTargets : Pad(t)
    \/ AsRef
    \/ \E from \in {0, 1}, to \in SliceEnds : Slice(from, to)
    \/ Unseal

Next == FixedNext

Spec == Init /\ [][Next]_vars

\* Corruption of stored bytes: the chained scheme on buf or the per-chunk
\* scheme on blob, one scheme per run.
TamperNext ==
    \/ /\ crefs = <<>>
       /\ \/ \E pt \in Plaintexts : buf = orig /\ FixedSeal(pt)
          \/ \E pos \in 1..Len(buf), bit \in FlipBits : Tamper(pos, bit)
          \/ AsRef
          \/ Unseal
    \/ /\ nonces = 0
       /\ \/ \E pt \in RefPlaintexts : blob = borig /\ RefSeal(pt)
          \/ \E pos \in 1..Len(blob), bit \in FlipBits : RefTamper(pos, bit)
          \/ \E i \in 1..MaxChunks : RefUnseal(i, "own", 0)

\* The runs that start from an empty buffer.
InitEmpty == Init /\ buf = <<>> /\ ~debug_build

SpecTamper == InitEmpty /\ [][TamperNext]_vars

\* The per-chunk scheme alone.
RefNext ==
    \/ \E pt \in RefPlaintexts : RefSeal(pt)
    \/ \E pos \in 1..Len(blob), bit \in FlipBits : RefTamper(pos, bit)
    \/ \E i \in 1..MaxChunks, sel \in {"own", "other", "none"}, cut \in {0, 1} :
          RefUnseal(i, sel, cut)

SpecRef == InitEmpty /\ [][RefNext]_vars

\* Seals of both schemes in any order.
SealNext ==
    \/ \E pt \in Plaintexts : FixedSeal(pt)
    \/ \E pt \in RefPlaintexts : RefSeal(pt)

SpecSeals == InitEmpty /\ [][SealNext]_vars

(***************************************************************************)
(* Properties.                                                             *)
(***************************************************************************)
Whole == [lo |-> 0, hi |-> Len(buf)]

Intact == buf = orig

NSegs == Len(segs)

\* out holds the plaintexts of the last segments, the last one first.
RevOut == \A i \in 1..Len(out) : i <= NSegs /\ out[i] = segs[NSegs + 1 - i].pt

\* What is left of the buffer after k segments have been untied.
Remainder(k) ==
    [lo |-> 0, hi |-> IF k < NSegs THEN segs[NSegs - k].hi
                      ELSE IF NSegs = 0 THEN unpadded ELSE segs[1].lo]

\* An unseal of a chain that started on the view s of an intact buffer.
Untying(s) == last.op = "unseal" /\ Intact /\ start = s

ChainRecovered ==
    /\ last.status = "ok"
    /\ Len(out) = calls
    /\ RevOut
    /\ last.arg = out[calls]
    /\ view = Remainder(calls)

\* C1 (as amended): plaintexts longer than NONCEBYTES - MACBYTES bytes are
\* sealed, and untying an unpadded buffer of n such segments from the tail,
\* each time on the remainder of the call before, returns Pn, ..., P1.
C1_ChainedRoundTrip ==
    /\ (last.op = "seal" /\ Len(last.arg) > ShortLen) => last.status = "ok"
    /\ (Untying(Whole) /\ Len(buf) = unpadded /\ calls <= NSegs)
          => ChainRecovered

\* C1 as stated: the same for every plaintext length.
C1_Original ==
    /\ last.op = "seal" => last.status = "ok"
    /\ (Untying(Whole) /\ Len(buf) = unpadded /\ calls <= NSegs)
          => ChainRecovered

C1_Witness ==
    /\ Untying(Whole) /\ calls = 2 /\ NSegs = 2 /\ Len(out) = 2
    /\ out[1] # out[2] /\ Len(out[1]) # Len(out[2])

\* C2 (as amended): once random_pad_upto has extended a buffer of one or
\* more segments, unseal on the whole padded buffer fails authentication
\* (the bytes it takes as the footer include padding), and untying from the
\* view that ends where the padding starts recovers every plaintext.
C2_PaddingAtTail ==
    /\ (Untying(Whole) /\ Len(buf) > unpadded /\ NSegs >= 1 /\ calls = 1)
          => (last.status = "auth_err" /\ out = <<>>)
    /\ (Untying([lo |-> 0, hi |-> unpadded]) /\ Len(buf) > unpadded
          /\ calls <= NSegs)
          => ChainRecovered

\* C2 as stated: untying from the tail of the padded buffer succeeds for
\* every real segment.
C2_Original ==
    (Untying(Whole) /\ Len(buf) > unpadded /\ calls <= NSegs) => ChainRecovered

C2_Witness ==
    /\ Untying([lo |-> 0, hi |-> unpadded]) /\ Len(buf) > unpadded
    /\ NSegs = 2 /\ calls = 2 /\ Len(out) = 2

\* The last seal was asked for a plaintext of n bytes.
Sealed(n) == last.op = "seal" /\ Len(last.arg) = n

\* C3 (as amended): tie_knot refuses a plaintext of length 0 (any of at most
\* NONCEBYTES - MACBYTES bytes) with a fatal assertion and returns nothing;
\* the shortest plaintext it seals has one byte more, and that segment is a
\* body followed by a footer of footer_cipher_bytes bytes which unseal opens
\* back to the plaintext.
C3_ShortPlaintextRefused ==
    /\ (last.op = "seal" /\ Len(last.arg) <= ShortLen)
          => (last.status = "panic_assert" /\ ~alive /\ last.before = <<>>
              /\ buf = orig)
    /\ Sealed(ShortLen + 1)
          => /\ last.status = "ok"
             /\ Len(last.before) = ShortLen + 1 + MACBYTES + footer_cipher_bytes
    /\ (Untying(Whole) /\ Len(buf) = unpadded /\ calls = 1 /\ NSegs >= 1
          /\ Len(segs[NSegs].pt) = ShortLen + 1)
          => (last.status = "ok" /\ last.arg = segs[NSegs].pt
              /\ view = Remainder(1))

\* C3 as stated: an empty plaintext is sealed into a well-formed segment.
C3_Original ==
    Sealed(0)
       => /\ last.status = "ok"
          /\ Len(last.before) = MACBYTES + footer_cipher_bytes

C3_Witness == Sealed(0) /\ last.status = "panic_assert" /\ ~alive

\* b is o with exactly one bit inverted, in a byte of (lo, hi].
OneBitFlipped(b, o, lo, hi) ==
    \E pos \in (lo + 1)..hi, bit \in 0..7 : b = FlipBit(o, pos, bit)

\* C4: with one bit of the last segment inverted, unseal on the buffer
\* returns an authentication error and no plaintext; so does RefKey::unseal
\* on a chunk with one bit inverted.
C4_TamperDetected ==
    /\ (last.op = "unseal" /\ start = Whole /\ calls = 1 /\ NSegs >= 1
          /\ Len(buf) = unpadded
          /\ OneBitFlipped(buf, orig, segs[NSegs].lo, segs[NSegs].hi))
          => (last.status = "auth_err" /\ out = <<>> /\ last.arg = <<>>)
    /\ (last.op = "ref_unseal" /\ last.before = <<"own">>
          /\ last.pre.hi = Len(blob)
          /\ OneBitFlipped(blob, borig, crefs[last.n].offset,
                           crefs[last.n].offset + crefs[last.n].length))
          => (last.status = "auth_err" /\ last.arg = <<>>)

C4_Witness ==
    /\ last.op = "unseal" /\ start = Whole /\ calls = 1 /\ buf # orig
    /\ last.res.footOK /\ last.status = "auth_err"

\* Chunk i lies unchanged in blob.
ChunkIntact(i) ==
    SubSeq(blob, crefs[i].offset + 1, crefs[i].offset + crefs[i].length)
       = SubSeq(borig, crefs[i].offset + 1, crefs[i].offset + crefs[i].length)

\* C5: RefKey::seal records a key and the length len(P) + MACBYTES;
\* RefKey::unseal with that key and length, on a view holding the ciphertext
\* at the recorded range, returns P, and with another generated key fails
\* authentication.
C5_RefRoundTrip ==
    /\ last.op = "ref_seal"
          => /\ crefs[Len(crefs)].key = gen_key(keys)
             /\ crefs[Len(crefs)].length = Len(last.arg) + MACBYTES
             /\ Len(last.before) = crefs[Len(crefs)].length
    /\ (last.op = "ref_unseal" /\ ChunkIntact(last.n)
          /\ ViewLen(last.pre) >= crefs[last.n].offset + crefs[last.n].length)
          => /\ last.before = <<"own">>
                   => (last.status = "ok" /\ last.arg = crefs[last.n].plain)
             /\ last.before = <<"other">>
                   => (last.status = "auth_err" /\ last.arg = <<>>)

C5_Witness ==
    /\ last.op = "ref_unseal" /\ last.n = 2 /\ last.before = <<"own">>
    /\ last.status = "ok" /\ Len(last.arg) > 0 /\ blob # borig

\* C6: unseal on a view shorter than footer_cipher_bytes fails with the
\* assertion of split_from_right; after the n segments of a buffer made of
\* segments only have been untied the remainder is empty, and one more
\* unseal fails that way.
C6_UnderrunPastFirst ==
    /\ (last.op = "unseal" /\ ViewLen(last.pre) < footer_cipher_bytes)
          => /\ last.status = "panic_underrun"
             /\ ~alive /\ view = NoView /\ last.arg = <<>>
    /\ (Untying(Whole) /\ Len(buf) = unpadded /\ NSegs >= 1 /\ segs[1].lo = 0)
          => /\ calls = NSegs => (last.status = "ok" /\ ViewLen(view) = 0)
             /\ calls = NSegs + 1
                   => (last.status = "panic_underrun" /\ Len(out) = NSegs)

C6_Witness ==
    /\ Untying(Whole) /\ NSegs = 2 /\ calls = 3 /\ segs[1].lo = 0
    /\ last.status = "panic_underrun" /\ ViewLen(last.pre) = 0

\* C7: no (key, nonce) pair is handed to two seals; every RefKey::seal uses
\* a key of its own with the static nonce.
C7_NoNonceReuse ==
    /\ \A i, j \in 1..Len(sealLog) : i # j => sealLog[i] # sealLog[j]
    /\ \A i, j \in 1..Len(sealLog) :
          (i # j /\ sealLog[i].nonce = static_nonce)
             => sealLog[i].key # sealLog[j].key

C7_Witness ==
    /\ Len(sealLog) >= 5
    /\ \E i, j \in 1..Len(sealLog) : i < j /\ sealLog[i].key = sealLog[j].key
    /\ \E i \in 1..Len(sealLog) : sealLog[i].nonce = static_nonce

\* C8: untie_knot splits by the footer's length field only after the footer
\* has opened, and a footer that does not open yields an authentication
\* error without any such split.
C8_FooterBeforeLength ==
    last.op = "unseal"
       => /\ last.res.lenSplit => last.res.footOK
          /\ (last.res.footTried /\ ~last.res.footOK)
                => /\ last.status = "auth_err"
                   /\ ~last.res.lenSplit
                   /\ alive

C8_Witness ==
    /\ last.op = "unseal" /\ last.res.footTried /\ ~last.res.footOK
    /\ NSegs >= 1 /\ last.pre.hi > segs[NSegs].lo

\* The body length recorded in the footer of the segment seg.
FooterLength(seg) ==
    read_u64_le(SubSeq(boxes[seg[Len(seg)][2]].pt, NONCEBYTES + 1,
                       NONCEBYTES + 8), 8)

\* C9: a plaintext P longer than NONCEBYTES - MACBYTES bytes is sealed into
\* len(P) + fixed_key_overhead bytes whose footer records len(P) + MACBYTES,
\* and unseal on a view B ++ seal(P) returns P and the view B.
C9_SelfDelimiting ==
    /\ (last.op = "seal" /\ Len(last.arg) > ShortLen)
          => /\ last.status = "ok"
             /\ Len(last.before) = Len(last.arg) + fixed_key_overhead
             /\ Len(last.before)
                   = Len(last.arg) + MACBYTES + footer_cipher_bytes
             /\ FooterLength(last.before) = Len(last.arg) + MACBYTES
    /\ \A k \in 1..NSegs :
          (last.op = "unseal" /\ Intact /\ last.pre.hi = segs[k].hi
             /\ last.pre.lo <= segs[k].lo)
             => /\ last.status = "ok"
                /\ last.arg = segs[k].pt
                /\ view = [lo |-> last.pre.lo, hi |-> segs[k].lo]

C9_Witness ==
    /\ last.op = "unseal" /\ last.status = "ok" /\ last.pre.lo = 1
    /\ ViewLen(view) > 1 /\ calls = 1

Max(a, b) == IF a >= b THEN a ELSE b

\* C10: random_pad_upto(t) leaves a buffer of max(n, t) bytes whose first n
\* bytes are unchanged, and changes nothing when t <= n.
C10_PadOnlyAppends ==
    last.op = "pad"
       => /\ Len(buf) = Max(Len(last.before), last.n)
          /\ SubSeq(buf, 1, Len(last.before)) = last.before
          /\ last.n <= Len(last.before) => buf = last.before

C10_Witness ==
    /\ last.op = "pad" /\ Len(last.before) > 0 /\ Len(buf) > Len(last.before)
    /\ buf[Len(buf)][1] = "pad"
====
